---- MODULE Spec2Model ----
(***************************************************************************)
(* Write-and-verify endurance testers for removable media (zan66/xx).      *)
(*                                                                         *)
(* The repository holds three independent command-line programs, each a    *)
(* "cycle driver" that writes a test file, reads it back and hashes it:    *)
(*                                                                         *)
(*   "sha1"    src/main.go               lines 1-273   (SHA1, Windows)     *)
(*   "usbhash" src/free_space_linux.go   lines 74-272  (BLAKE2b-256)       *)
(*   "udisk"   src/unnamed/part_000                    (BLAKE2b-512)       *)
(*                                                                         *)
(* One behaviour of the model is one run of one of the programs: Init      *)
(* draws the program, and only that program's actions are enabled.         *)
(*                                                                         *)
(* Byte counts are scaled down: the programs' sizes (1 MiB, 64 MiB, ...)   *)
(* are replaced by small numbers that keep their order and divisibility,   *)
(* so that a file is a sequence of a few bytes.  A byte is a number in     *)
(* 0..255.  A digest is the record of the algorithm and of the bytes that  *)
(* were fed to it (a collision-free hash).                                 *)
(***************************************************************************)
EXTENDS Integers, Sequences, FiniteSets, TLC

(***************************************************************************)
(* Bounds of the model.                                                    *)
(***************************************************************************)
\* Largest free space (in scaled bytes) the operating system may report.
MaxFree == 8
\* How many times in one run the medium may return bytes other than the
\* ones that were written (a flipped byte, a lost tail).
MaxMediumFaults == 2
\* Modulus of the unsigned 64-bit arithmetic (2^64, scaled).
UintMod == 64
\* Largest free space of the volume the BLAKE2b-512 driver is pointed at.
MaxVolFree == 22
\* The -block flag is drawn from -MaxBlockSize..MaxBlockSize.
MaxBlockSize == 6
\* Largest buffer or block length a function is called with on its own.
MaxCallLen == 5
\* Longest sequence of read results a reader is run against on its own.
MaxReads == 3

(***************************************************************************)
(* Program constants (scaled).                                             *)
(***************************************************************************)
\* src/main.go:191  const reserveSpace = 1024 * 1024
reserveSpace == 2
\* src/main.go:21   blockSize := 100 * 1024 * 1024, len(fixedDataBlock)
FixedDataBlockLen == 3
\* src/main.go:114  buf := make([]byte, 64*1024)
Sha1BufLen == 2
\* src/main.go:208  for round := 1; round <= 5; round++
Sha1Rounds == 5
\* src/free_space_linux.go:89   const chunkSize = 64 * 1024 * 1024
chunkSize == 4
\* src/free_space_linux.go:225  blake2b.New256: the digest is 32 bytes long
Blake256Size == 2
\* src/free_space_linux.go:264  for i := 1; i <= 5; i++
UsbRounds == 5
\* src/unnamed/part_000:51   blake2b.New512: the digest is 64 bytes long
Blake512Size == 2
\* src/unnamed/part_000:107  buf := make([]byte, 1024*1024)
probeBufLen == 5
\* src/unnamed/part_000:210  actualWriteSize := freeSpace - 100*1024*1024
udiskReserve == 10
\* src/unnamed/part_000:105  maxTestSize := int64(100 * 1024 * 1024 * 1024)
maxTestSize == 20
\* src/unnamed/part_000:29   flag.IntVar(&repeat, "repeat", 5, ...)
repeat == 5

(***************************************************************************)
(* Helpers.                                                                *)
(***************************************************************************)
Min(a, b) == IF a < b THEN a ELSE b

\* a - b on uint64: wraps around instead of going negative.
USub(a, b) == (a - b) % UintMod

\* s[:n]
Take(s, n) == SubSeq(s, 1, n)

\* A file of the volume: whether the name exists, and the bytes on the medium.
NoFile == [exists |-> FALSE, bytes |-> <<>>]
EmptyFile == [exists |-> TRUE, bytes |-> <<>>]
FileOf(b) == [exists |-> TRUE, bytes |-> b]

\* The Go string "" (no digest) and the hex form of a digest.
EmptyStr == [alg |-> "", of |-> <<>>]
HexDigest(alg, bytes) == [alg |-> alg, of |-> bytes]

\* What the medium may hold after `bytes` were written to it: the bytes, or
\* the bytes with one of them changed (bit 7 flipped), or with the tail lost.
FlipAt(s, p) == [s EXCEPT ![p] = (s[p] + 128) % 256]
Medium(bytes) ==
    {bytes} \cup {FlipAt(bytes, p) : p \in 1..Len(bytes)}
            \cup (IF Len(bytes) > 0 THEN {Take(bytes, Len(bytes) - 1)} ELSE {})

VARIABLES
    prog,           \* which program runs
    pc,             \* where the program is
    outcome,        \* what the program printed last before it ended ("" while running)
    round,          \* the loop variable of the cycle driver
    freeSpace,      \* the driver's freeSpace variable
    filePath,       \* the path the writer returned to the driver ("" on error)
    file,           \* the round's test file on the volume
    hashIn,         \* the bytes fed to the read-side hash so far
    read,           \* bytes read back so far
    faults,         \* medium faults so far
    \* src/main.go
    remaining,      \* writeFixedFile's remaining
    baselineSHA1,   \* main's baselineSHA1
    results,        \* main's results
    \* src/free_space_linux.go
    written,        \* writeFileToUsb's written
    existing,       \* the test files of earlier rounds still on the volume
    usbPath,        \* main's *usbPath, the -path flag
    usbFree,        \* the bytes the volume can still take
    \* src/unnamed/part_000
    blockSize,      \* the -block flag
    volFree,        \* the bytes the volume can still take
    tmpLeft,        \* the size of a .tmp_space_check file left behind (0: none)
    data,           \* writeAndVerify's data
    checksum,       \* writeAndVerify's checksum
    verifyChecksum, \* writeAndVerify's verifyChecksum
    roundHashes,    \* main's roundHashes
    handles,        \* the file handles writeAndVerify holds open
    \* What an observer of the run has seen; no action reads it.
    obs,
    \* The last call of a function run on its own, with its inputs and its results.
    lastCall

progSha1 == <<remaining, baselineSHA1, results>>
progUsb == <<written, existing, usbPath, usbFree>>
udiskData == <<blockSize, volFree, tmpLeft, data, checksum, verifyChecksum, roundHashes>>
progUdisk == <<udiskData, handles>>
common == <<prog, pc, outcome, round, freeSpace, filePath, file, hashIn, read, faults>>
\* What the actions of one program leave alone.
notSha1 == <<progUsb, progUdisk, lastCall>>
notUsb == <<progSha1, progUdisk, lastCall>>
notUdisk == <<progSha1, progUsb, lastCall>>
vars == <<common, progSha1, progUsb, progUdisk, obs, lastCall>>

Programs == {"sha1", "usbhash", "udisk"}

\* The observer's record at the start of a run.
ObsInit ==
    [ probed        |-> -1,     \* the last value the free-space probe returned
      probeCalls    |-> 0,      \* calls of the free-space probe
      roundsStarted |-> 0,      \* rounds whose test file the driver tried to create
      ioFailedAt    |-> 0,      \* the round in which a write, flush or read failed
      mismatchAt    |-> 0,      \* the first round whose digest differed from the baseline
      writerErrors  |-> 0,      \* error returns of the writer out of its loop or flush
      writerRemoves |-> 0,      \* os.Remove calls made by the writer itself
      removedOk     |-> FALSE,  \* whether the last os.Remove of the test file succeeded
      synced        |-> FALSE,  \* whether f.Sync succeeded on the round's file
      wrote         |-> <<>>,   \* the bytes handed to successful writes this round
      lastWrite     |-> 0,      \* the size of the last single write
      roundDigests  |-> <<>>,   \* digests of the rounds that wrote and hashed without error
      corruptReadAt |-> 0,      \* the last round that read back a byte other than the written one
      lastReturn    |-> [round |-> 0, err |-> FALSE],  \* the last return of a round function
      createdAt     |-> 0,      \* the last round that created its test file
      removeTriedAt |-> 0,      \* the last round that called os.Remove on its test file
      verifiedAt    |-> 0,      \* the last round whose digests compared equal
      cleanupFailedAt |-> 0,    \* the round whose os.Remove failed after it had verified
      external      |-> FALSE,  \* whether something else changed the volume's free space
      probeFailed   |-> FALSE,  \* whether the free-space system call failed
      shortReadAt   |-> 0,      \* the last round whose read-back ended before the target size
      allocated     |-> 0,      \* the largest payload buffer allocated so far
      tmpPeak       |-> 0,      \* the largest size the probe's temporary file has had
      openAtRemove  |-> {},     \* the handles open on the test file at its last os.Remove
      tmpOpenAtRemove |-> FALSE ] \* whether the probe's file was open at its os.Remove

\* No function has been called on its own.
NoCall ==
    [ fn |-> "", size |-> 0, seeds |-> <<>>, reads |-> <<>>, out |-> <<>>,
      again |-> <<>>, sums |-> <<>>, calls |-> 0, panic |-> FALSE, err |-> FALSE,
      block |-> 0, status |-> "" ]

\* The state every run starts in, but for the program that runs.
Boot ==
    /\ pc = "start"
    /\ outcome = ""
    /\ round = 0
    /\ freeSpace = 0
    /\ filePath = ""
    /\ file = NoFile
    /\ hashIn = <<>>
    /\ read = 0
    /\ faults = 0
    /\ remaining = 0
    /\ baselineSHA1 = EmptyStr
    /\ results = <<>>
    /\ written = 0
    /\ existing = {}
    /\ usbPath = ""
    /\ usbFree = 0
    /\ tmpLeft = 0
    /\ data = <<>>
    /\ checksum = EmptyStr
    /\ verifyChecksum = EmptyStr
    /\ roundHashes = [i \in 1..repeat |-> EmptyStr]
    /\ handles = {}
    /\ obs = ObsInit
    /\ lastCall = NoCall

Init ==
    /\ prog \in Programs
    /\ blockSize \in IF prog = "udisk" THEN (0 - MaxBlockSize)..MaxBlockSize ELSE {0}
    /\ volFree \in IF prog = "udisk" THEN 0..MaxVolFree ELSE {0}
    /\ Boot

\* The bytes a reader may find when it opens a file holding `bytes`.
OnMedium(bytes) == IF faults < MaxMediumFaults THEN Medium(bytes) ELSE {bytes}

(***************************************************************************)
(* src/main.go: the SHA1 driver.                                           *)
(***************************************************************************)
\* initFixedDataBlock: fixedDataBlock[i] = byte(i % 256)
fixedDataBlock == [i \in 1..FixedDataBlockLen |-> (i - 1) % 256]

\* writeFixedFile: the size of the next write.
WriteSize(rem) == IF rem < FixedDataBlockLen THEN rem ELSE FixedDataBlockLen

\* Mutant of RemoveUnfinished: the error paths leave the unfinished file alone.
RemoveUnfinished_Keep(f, rmOk) == f

\* writeFixedFile's error paths: os.Remove(filePath) before the return.
RemoveUnfinished(f, rmOk) == IF rmOk THEN NoFile ELSE f

\* deleteFile: os.Stat, then os.Remove.
deleteFile(f, rmOk) == IF f.exists /\ rmOk THEN NoFile ELSE f

\* Mutant of AfterRoundError: `continue` instead of `break`.
AfterRoundError_Continue == "delete"

\* main: the `break` after a failed write or a failed hash leaves the loop.
AfterRoundError == "report"

\* main: the test of the free-space check, `freeSpace < reserveSpace`.
InsufficientSpace(free) == free < reserveSpace

\* Mutant of OverallPass: the number of compared rounds is not looked at.
OverallPass_AnyCount(res) == \A i \in 1..Len(res) : res[i].isConsistent

\* main: allConsistent && len(results) == 4
OverallPass(res) ==
    /\ \A i \in 1..Len(res) : res[i].isConsistent
    /\ Len(res) = 4

\* main, lines 159-176: the drive must exist.
Sha1_Start ==
    /\ prog = "sha1" /\ pc = "start"
    /\ \E exists \in BOOLEAN :
         /\ pc' = IF exists THEN "probe" ELSE "exit"
         /\ outcome' = IF exists THEN outcome ELSE "nodrive"
    /\ UNCHANGED <<prog, round, freeSpace, filePath, file, hashIn, read, faults,
                   progSha1, notSha1, obs>>

\* main, lines 178-196: getDiskFreeSpace once, then the reserve.
Sha1_Probe ==
    /\ prog = "sha1" /\ pc = "probe"
    /\ \E ok \in BOOLEAN, F \in 0..MaxFree :
         IF ~ok
         THEN /\ outcome' = "probeError" /\ pc' = "exit"
              /\ obs' = [obs EXCEPT !.probeCalls = @ + 1]
              /\ UNCHANGED <<freeSpace, round>>
         ELSE /\ obs' = [obs EXCEPT !.probeCalls = @ + 1, !.probed = F]
              /\ IF InsufficientSpace(F)
                 THEN /\ outcome' = "insufficientSpace" /\ pc' = "exit"
                      /\ UNCHANGED <<freeSpace, round>>
                 ELSE /\ freeSpace' = USub(F, reserveSpace)
                      /\ round' = 1
                      /\ pc' = "create"
                      /\ UNCHANGED outcome
    /\ UNCHANGED <<prog, filePath, file, hashIn, read, faults, progSha1, notSha1>>

\* writeFixedFile, lines 59-72 (os.Create), and main's lines 212-216.
Sha1_Create ==
    /\ prog = "sha1" /\ pc = "create"
    /\ \E ok \in BOOLEAN :
         IF ok
         THEN /\ file' = EmptyFile
              /\ remaining' = freeSpace
              /\ pc' = "write"
              /\ obs' = [obs EXCEPT !.roundsStarted = @ + 1, !.wrote = <<>>,
                                    !.synced = FALSE]
         ELSE /\ pc' = AfterRoundError
              /\ obs' = [obs EXCEPT !.roundsStarted = @ + 1, !.ioFailedAt = round]
              /\ UNCHANGED <<file, remaining>>
    /\ filePath' = ""
    /\ UNCHANGED <<prog, outcome, round, freeSpace, hashIn, read, faults, baselineSHA1,
                   results, notSha1>>

\* writeFixedFile, lines 74-92: one iteration of the write loop.
Sha1_WriteBlock ==
    /\ prog = "sha1" /\ pc = "write" /\ remaining > 0
    /\ LET writeSize == WriteSize(remaining) IN
       \E ok \in BOOLEAN :
         IF ok
         THEN /\ file' = FileOf(file.bytes \o Take(fixedDataBlock, writeSize))
              /\ remaining' = USub(remaining, writeSize)
              /\ obs' = [obs EXCEPT !.wrote = @ \o Take(fixedDataBlock, writeSize),
                                    !.lastWrite = writeSize]
              /\ UNCHANGED pc
         ELSE \E k \in 0..(writeSize - 1), rmOk \in BOOLEAN :
              \* the failed write may have put k bytes down; then os.Remove
              /\ file' = RemoveUnfinished(
                             FileOf(file.bytes \o Take(fixedDataBlock, k)), rmOk)
              /\ obs' = [obs EXCEPT !.removedOk = rmOk, !.writerErrors = @ + 1,
                                    !.writerRemoves = @ + 1, !.ioFailedAt = round]
              /\ pc' = AfterRoundError
              /\ UNCHANGED remaining
    /\ UNCHANGED <<prog, outcome, round, freeSpace, filePath, hashIn, read, faults,
                   baselineSHA1, results, notSha1>>

\* writeFixedFile, lines 94-103: the loop is over; f.Sync, return filePath.
Sha1_Sync ==
    /\ prog = "sha1" /\ pc = "write" /\ remaining = 0
    /\ \E ok \in BOOLEAN :
         IF ok
         THEN /\ obs' = [obs EXCEPT !.synced = TRUE]
              /\ filePath' = "usb_test_file.tmp"
              /\ pc' = "open"
              /\ UNCHANGED file
         ELSE \E rmOk \in BOOLEAN :
              /\ file' = RemoveUnfinished(file, rmOk)
              /\ obs' = [obs EXCEPT !.removedOk = rmOk, !.writerErrors = @ + 1,
                                    !.writerRemoves = @ + 1, !.ioFailedAt = round]
              /\ pc' = AfterRoundError
              /\ UNCHANGED filePath
    /\ UNCHANGED <<prog, outcome, round, freeSpace, hashIn, read, faults, progSha1, notSha1>>

\* calculateSHA1, lines 106-116 (os.Open), and main's lines 219-224.
Sha1_Open ==
    /\ prog = "sha1" /\ pc = "open"
    /\ \E ok \in BOOLEAN :
         IF ok
         THEN \E b \in OnMedium(file.bytes) :
              /\ file' = FileOf(b)
              /\ faults' = IF b = file.bytes THEN faults ELSE faults + 1
              /\ hashIn' = <<>>
              /\ read' = 0
              /\ pc' = "read"
              /\ UNCHANGED obs
         ELSE \E rmOk \in BOOLEAN :
              /\ file' = deleteFile(file, rmOk)
              /\ obs' = [obs EXCEPT !.removedOk = rmOk, !.ioFailedAt = round]
              /\ pc' = AfterRoundError
              /\ UNCHANGED <<faults, hashIn, read>>
    /\ UNCHANGED <<prog, outcome, round, freeSpace, filePath, progSha1, notSha1>>

\* calculateSHA1, lines 118-127: one file.Read of the hash loop.
Sha1_Read ==
    /\ prog = "sha1" /\ pc = "read"
    /\ \/ \* err != nil && err != io.EOF: return; main deletes the file and breaks
          \E rmOk \in BOOLEAN :
          /\ file' = deleteFile(file, rmOk)
          /\ obs' = [obs EXCEPT !.removedOk = rmOk, !.ioFailedAt = round]
          /\ pc' = AfterRoundError
          /\ UNCHANGED <<hashIn, read>>
       \/ \* n > 0: hash.Write(buf[:n])
          /\ read < Len(file.bytes)
          /\ \E n \in 1..Min(Sha1BufLen, Len(file.bytes) - read) :
               /\ hashIn' = hashIn \o SubSeq(file.bytes, read + 1, read + n)
               /\ read' = read + n
          /\ UNCHANGED <<file, obs, pc>>
       \/ \* n == 0 at the end of the file: break
          /\ read = Len(file.bytes)
          /\ pc' = "record"
          /\ UNCHANGED <<file, obs, hashIn, read>>
    /\ UNCHANGED <<prog, outcome, round, freeSpace, filePath, faults, progSha1, notSha1>>

\* calculateSHA1, lines 129-133, and main's lines 226-242: baseline or comparison.
Sha1_Record ==
    /\ prog = "sha1" /\ pc = "record"
    /\ LET sha1Str == HexDigest("sha1", hashIn) IN
       IF round = 1
       THEN /\ baselineSHA1' = sha1Str
            /\ obs' = [obs EXCEPT !.roundDigests = Append(@, sha1Str)]
            /\ UNCHANGED results
       ELSE /\ results' = Append(results, [round |-> round, sha1 |-> sha1Str,
                                           isConsistent |-> (sha1Str = baselineSHA1)])
            /\ obs' = [obs EXCEPT !.roundDigests = Append(@, sha1Str),
                                  !.mismatchAt = IF @ = 0 /\ sha1Str # baselineSHA1
                                                 THEN round ELSE @]
            /\ UNCHANGED baselineSHA1
    /\ pc' = "delete"
    /\ UNCHANGED <<prog, outcome, round, freeSpace, filePath, file, hashIn, read, faults,
                   remaining, notSha1>>

\* main, lines 244-248, deleteFile, and the loop header of line 208.
Sha1_Delete ==
    /\ prog = "sha1" /\ pc = "delete"
    /\ \E rmOk \in BOOLEAN :
         /\ file' = deleteFile(file, rmOk)
         /\ obs' = [obs EXCEPT !.removedOk = rmOk]
    /\ round' = round + 1
    /\ pc' = IF round + 1 <= Sha1Rounds THEN "create" ELSE "report"
    /\ UNCHANGED <<prog, outcome, freeSpace, filePath, hashIn, read, faults, progSha1, notSha1>>

\* main, lines 250-272: the final report.
Sha1_Report ==
    /\ prog = "sha1" /\ pc = "report"
    /\ outcome' = IF baselineSHA1 = EmptyStr THEN "incomplete"
                  ELSE IF OverallPass(results) THEN "pass" ELSE "unstable"
    /\ pc' = "exit"
    /\ UNCHANGED <<prog, round, freeSpace, filePath, file, hashIn, read, faults,
                   progSha1, notSha1, obs>>

Sha1_Next ==
    \/ Sha1_Start \/ Sha1_Probe \/ Sha1_Create \/ Sha1_WriteBlock \/ Sha1_Sync
    \/ Sha1_Open \/ Sha1_Read \/ Sha1_Record \/ Sha1_Delete \/ Sha1_Report

(***************************************************************************)
(* src/free_space_linux.go, lines 74-272: the BLAKE2b-256 driver.          *)
(***************************************************************************)
\* generateFixedBlock, lines 94-107: chunk = BLAKE2b-256(BLAKE2b-256(seed)), the same
\* in every iteration; its leading bytes for seed "usb-hash-check-fixed-seed-2026".
chunk == [i \in 1..Blake256Size |-> <<104, 24, 225, 116>>[i]]

\* copy(dst[pos:], src)
CopyAt(dst, pos, src) ==
    [i \in 1..Len(dst) |-> IF i > pos /\ i <= pos + Len(src) THEN src[i - pos] ELSE dst[i]]

\* generateFixedBlock, lines 102-114: the fill loop.
RECURSIVE FillBlock(_, _)
FillBlock(block, pos) ==
    IF pos < Len(block)
    THEN LET filled == CopyAt(block, pos, chunk)
             next == pos + Len(chunk)
         IN  IF next + Len(chunk) > Len(block) THEN filled ELSE FillBlock(filled, next)
    ELSE block

generateFixedBlock(blockLen) == FillBlock([i \in 1..blockLen |-> 0], 0)

\* Mutant of UsbWriteSize: the last block is not cut to what remains.
UsbWriteSize_WholeChunk(totalSize, done) == chunkSize

\* writeFileToUsb, lines 147-151: the size of the next write.
UsbWriteSize(totalSize, done) ==
    LET left == USub(totalSize, done)
    IN  IF chunkSize > left THEN left ELSE chunkSize

\* runSingleTest returns an error: main prints it and exits with status 1.
UsbFail ==
    /\ outcome' = "testFailed"
    /\ pc' = "exit"

\* The values of the -path flag: a mount path or a path relative to the working
\* directory, each either the directory of a mounted volume or a name of nothing.
UsbPaths == {"/mnt/usb", "/mnt/none", "mnt/usb", "mnt/none"}

\* syscall.Statfs resolves the path as every system call does: an absolute path from
\* the root, a relative one from the working directory.
Resolves(path) == path \in {"/mnt/usb", "mnt/usb"}

\* getLinuxFreeSpace, lines 12-19: syscall.Statfs(mountPath, &stat) and nothing else;
\* osOk is whether the system call succeeds on a path that resolves.
getLinuxFreeSpace(mountPath, osOk, free) ==
    IF Resolves(mountPath) /\ osOk
    THEN [err |-> FALSE, bytes |-> free]
    ELSE [err |-> TRUE, bytes |-> 0]

\* getUsbFreeSpace, lines 118-126, with runtime.GOOS = "linux".
getUsbFreeSpace(path, osOk, free) == getLinuxFreeSpace(path, osOk, free)

\* main, lines 251-261: the -path flag must be given.
Usb_Start ==
    /\ prog = "usbhash" /\ pc = "start"
    /\ \/ \E path \in UsbPaths, F \in 0..MaxFree :
            /\ usbPath' = path
            /\ usbFree' = F
            /\ round' = 1 /\ pc' = "probe" /\ UNCHANGED outcome
       \/ /\ outcome' = "usage" /\ pc' = "exit"
          /\ UNCHANGED <<round, usbPath, usbFree>>
    /\ UNCHANGED <<prog, freeSpace, filePath, file, hashIn, read, faults, written,
                   existing, notUsb, obs>>

\* runSingleTest, lines 210-227: getUsbFreeSpace at the start of the round.  The volume
\* has F bytes free: what the run left, or what something else made of it since.
Usb_Probe ==
    /\ prog = "usbhash" /\ pc = "probe"
    /\ \E osOk \in BOOLEAN, F \in 0..MaxFree :
         LET got == getUsbFreeSpace(usbPath, osOk, F)
             seen == [obs EXCEPT !.probeCalls = @ + 1,
                                 !.external = @ \/ F # usbFree]
         IN
         /\ usbFree' = F
         /\ IF got.err
            THEN /\ UsbFail
                 /\ obs' = [seen EXCEPT !.probeFailed = TRUE,
                                        !.lastReturn = [round |-> round, err |-> TRUE]]
                 /\ UNCHANGED freeSpace
            ELSE IF got.bytes = 0
            THEN /\ UsbFail
                 /\ obs' = [seen EXCEPT !.probed = got.bytes,
                                        !.lastReturn = [round |-> round, err |-> TRUE]]
                 /\ UNCHANGED freeSpace
            ELSE /\ freeSpace' = got.bytes
                 /\ pc' = "create"
                 /\ obs' = [seen EXCEPT !.probed = got.bytes]
                 /\ UNCHANGED outcome
    /\ UNCHANGED <<prog, round, filePath, file, hashIn, read, faults, written, existing,
                   usbPath, notUsb>>

\* writeFileToUsb, lines 129-144: os.Create, generateFixedBlock.
Usb_Create ==
    /\ prog = "usbhash" /\ pc = "create"
    /\ \E ok \in BOOLEAN :
         IF ok
         THEN /\ file' = EmptyFile
              /\ written' = 0
              /\ pc' = "write"
              /\ obs' = [obs EXCEPT !.roundsStarted = @ + 1, !.wrote = <<>>,
                                    !.synced = FALSE]
              /\ UNCHANGED outcome
         ELSE /\ UsbFail
              /\ obs' = [obs EXCEPT !.roundsStarted = @ + 1, !.ioFailedAt = round,
                                    !.lastReturn = [round |-> round, err |-> TRUE]]
              /\ UNCHANGED <<file, written>>
    /\ UNCHANGED <<prog, round, freeSpace, filePath, hashIn, read, faults, existing,
                   usbPath, usbFree, notUsb>>

\* writeFileToUsb, lines 145-163: one iteration of the write loop.
Usb_WriteBlock ==
    /\ prog = "usbhash" /\ pc = "write" /\ written < freeSpace
    /\ LET writeSize == UsbWriteSize(freeSpace, written)
           fixedBlock == generateFixedBlock(chunkSize)
       IN
       \E ok \in BOOLEAN :
         IF ok
         THEN /\ file' = FileOf(file.bytes \o Take(fixedBlock, writeSize))
              /\ written' = written + writeSize
              /\ usbFree' = usbFree - writeSize
              /\ obs' = [obs EXCEPT !.wrote = @ \o Take(fixedBlock, writeSize),
                                    !.lastWrite = writeSize]
              /\ UNCHANGED <<pc, outcome>>
         ELSE \E k \in 0..(writeSize - 1) :
              /\ file' = FileOf(file.bytes \o Take(fixedBlock, k))
              /\ usbFree' = usbFree - k
              /\ UsbFail
              /\ obs' = [obs EXCEPT !.writerErrors = @ + 1, !.ioFailedAt = round,
                                    !.lastReturn = [round |-> round, err |-> TRUE]]
              /\ UNCHANGED written
    /\ UNCHANGED <<prog, round, freeSpace, filePath, hashIn, read, faults, existing,
                   usbPath, notUsb>>

\* writeFileToUsb, lines 164-166: the loop is over; return nil (the deferred Close).
Usb_WriteDone ==
    /\ prog = "usbhash" /\ pc = "write" /\ written >= freeSpace
    /\ pc' = "open"
    /\ UNCHANGED <<prog, outcome, round, freeSpace, filePath, file, hashIn, read, faults,
                   progUsb, notUsb, obs>>

\* verifyFileHash, lines 169-180: os.Open, h.Reset.
Usb_Open ==
    /\ prog = "usbhash" /\ pc = "open"
    /\ \E ok \in BOOLEAN :
         IF ok
         THEN \E b \in OnMedium(file.bytes) :
              /\ file' = FileOf(b)
              /\ faults' = IF b = file.bytes THEN faults ELSE faults + 1
              /\ hashIn' = <<>>
              /\ read' = 0
              /\ pc' = "read"
              /\ UNCHANGED <<outcome, obs>>
         ELSE /\ UsbFail
              /\ obs' = [obs EXCEPT !.ioFailedAt = round,
                                    !.lastReturn = [round |-> round, err |-> TRUE]]
              /\ UNCHANGED <<file, faults, hashIn, read>>
    /\ UNCHANGED <<prog, round, freeSpace, filePath, progUsb, notUsb>>

\* verifyFileHash, lines 182-204: one iteration of the read loop.
Usb_Read ==
    /\ prog = "usbhash" /\ pc = "read" /\ read < freeSpace
    /\ LET readSize == UsbWriteSize(freeSpace, read) IN
       \/ \* err != nil && err != io.EOF
          /\ UsbFail
          /\ obs' = [obs EXCEPT !.ioFailedAt = round,
                                !.lastReturn = [round |-> round, err |-> TRUE]]
          /\ UNCHANGED <<hashIn, read>>
       \/ \* n > 0: h.Write(buf[:n]); read += n
          /\ read < Len(file.bytes)
          /\ \E n \in 1..Min(readSize, Len(file.bytes) - read) :
               LET got == SubSeq(file.bytes, read + 1, read + n) IN
               /\ hashIn' = hashIn \o got
               /\ read' = read + n
               /\ pc' = IF read + n < freeSpace THEN "read" ELSE "finish"
               /\ obs' = [obs EXCEPT !.corruptReadAt =
                            IF got # SubSeq(obs.wrote, read + 1, read + n)
                            THEN round ELSE @]
          /\ UNCHANGED outcome
       \/ \* n == 0: break
          /\ read = Len(file.bytes)
          /\ pc' = "finish"
          /\ obs' = [obs EXCEPT !.shortReadAt = round]
          /\ UNCHANGED <<outcome, hashIn, read>>
    /\ UNCHANGED <<prog, round, freeSpace, filePath, file, faults, progUsb, notUsb>>

\* verifyFileHash, lines 205-206, runSingleTest, lines 242-249 (the delete is commented
\* out: the file stays), and main, lines 263-271.
Usb_Finish ==
    /\ prog = "usbhash" /\ pc = "finish"
    /\ obs' = [obs EXCEPT !.lastReturn = [round |-> round, err |-> FALSE],
                          !.wrote = <<>>, !.lastWrite = 0]
    /\ existing' = existing \cup {round}
    /\ file' = NoFile
    \* the locals of runSingleTest and of the functions it called are gone
    /\ freeSpace' = 0 /\ written' = 0 /\ hashIn' = <<>> /\ read' = 0
    /\ round' = round + 1
    /\ IF round + 1 <= UsbRounds
       THEN pc' = "probe" /\ UNCHANGED outcome
       ELSE pc' = "exit" /\ outcome' = "allDone"
    /\ UNCHANGED <<prog, filePath, faults, usbPath, usbFree, notUsb>>

Usb_Next ==
    \/ Usb_Start \/ Usb_Probe \/ Usb_Create \/ Usb_WriteBlock \/ Usb_WriteDone
    \/ Usb_Open \/ Usb_Read \/ Usb_Finish

(***************************************************************************)
(* src/unnamed/part_000: the BLAKE2b-512 driver.                           *)
(***************************************************************************)
\* generateFixedData, lines 45-48: rand.Read(seed).  A seed is 32 bytes; the model draws
\* it from the seeds whose bytes are all 0 or all 1.
SeedBytes == {0, 1}

\* fixedReader.Read, lines 75-79: hashBytes = BLAKE2b-512(seed), its leading bytes.
hashBytesOf(seed) ==
    [i \in 1..Blake512Size |->
        (IF seed = 0 THEN <<154, 183, 167, 58>> ELSE <<220, 41, 172, 86>>)[i]]

\* blake2b.Sum512 and the %x form of a checksum.
Sum512(bytes) == [alg |-> "blake2b-512", of |-> bytes]
Hex(sum) == [alg |-> "hex", of |-> sum.of]

\* fixedReader.Read, lines 81-87: the fill loop from position i on.  hashBytes[:k]
\* panics when k exceeds cap(hashBytes), which is its length.
RECURSIVE FillRest(_, _, _)
FillRest(p, i, hashBytes) ==
    IF i < Len(p)
    THEN IF Len(p) - i > Len(hashBytes)
         THEN [panic |-> TRUE, p |-> p]
         ELSE FillRest(CopyAt(p, i, Take(hashBytes, Len(p) - i)), i + Len(hashBytes),
                       hashBytes)
    ELSE [panic |-> FALSE, p |-> p]

\* fixedReader.Read, lines 73-89, on a buffer of bufLen zero bytes.
fixedReaderRead(seed, bufLen) ==
    LET hashBytes == hashBytesOf(seed)
        n == Min(bufLen, Len(hashBytes))
        p == CopyAt([i \in 1..bufLen |-> 0], 0, hashBytes)
    IN  IF n < bufLen THEN FillRest(p, n, hashBytes) ELSE [panic |-> FALSE, p |-> p]

\* generateFixedData, lines 43-65.  make([]byte, size) panics on a negative size;
\* io.ReadFull does not call Read for an empty buffer.
generateFixedData(size, seed) ==
    IF size < 0 THEN [panic |-> TRUE, data |-> <<>>, checksum |-> EmptyStr]
    ELSE IF size = 0 THEN [panic |-> FALSE, data |-> <<>>, checksum |-> Sum512(<<>>)]
    ELSE LET r == fixedReaderRead(seed, size)
         IN  [panic |-> r.panic, data |-> r.p,
              checksum |-> IF r.panic THEN EmptyStr ELSE Sum512(r.p)]

\* getDiskFreeSpace, lines 104-116: the most full buffers the temporary file can take.
ProbeWrites == Min(volFree, maxTestSize) \div probeBufLen

\* writeWithProgress, lines 161-193, from `done` bytes on: the bytes that reach the file
\* and how the function ends.  The write call number failAt (0: none) fails.
RECURSIVE WriteLoop(_, _, _, _, _)
WriteLoop(bytes, bufSize, done, call, failAt) ==
    IF done < Len(bytes)
    THEN LET end == IF done + bufSize > Len(bytes) THEN Len(bytes) ELSE done + bufSize
         IN  IF end < done THEN [status |-> "panic", bytes |-> Take(bytes, done)]
             ELSE IF call = failAt THEN [status |-> "error", bytes |-> Take(bytes, done)]
             ELSE IF end = done THEN [status |-> "hang", bytes |-> Take(bytes, done)]
             ELSE WriteLoop(bytes, bufSize, end, call + 1, failAt)
    ELSE [status |-> "ok", bytes |-> Take(bytes, done)]

writeWithProgress(bytes, bufSize, failAt) == WriteLoop(bytes, bufSize, 0, 1, failAt)

\* The write calls writeWithProgress may make.
WriteCalls(bytes, bufSize) ==
    IF Len(bytes) = 0 THEN 0
    ELSE IF bufSize <= 0 THEN 1
    ELSE (Len(bytes) + bufSize - 1) \div bufSize

\* main, lines 299-301: writeAndVerify returned an error; log.Fatalf.
UdiskFatal ==
    /\ outcome' = "fatal"
    /\ pc' = "exit"

\* The observer's note of a return with an error from round i (counted from 1).
Failed(o, i) == [o EXCEPT !.lastReturn = [round |-> i, err |-> TRUE]]

\* init, lines 26-40, and main, lines 277-294: -path is given, the path is writable.
Udisk_Start ==
    /\ prog = "udisk" /\ pc = "start"
    /\ \E ok \in BOOLEAN :
         IF ok
         THEN /\ round' = 0 /\ pc' = "probe" /\ UNCHANGED outcome
         ELSE /\ UdiskFatal /\ UNCHANGED round
    /\ UNCHANGED <<prog, freeSpace, filePath, file, hashIn, read, faults, progUdisk,
                   notUdisk, obs>>

\* writeAndVerify, lines 196-217: getDiskFreeSpace, the two size checks,
\* generateFixedData.
Udisk_Probe ==
    /\ prog = "udisk" /\ pc = "probe"
    /\ \E createOk \in BOOLEAN :
         IF ~createOk
         THEN /\ UdiskFatal
              /\ obs' = Failed([obs EXCEPT !.probeCalls = @ + 1], round + 1)
              /\ UNCHANGED <<freeSpace, tmpLeft, data, checksum>>
         ELSE \E k \in 0..ProbeWrites, rmOk \in BOOLEAN, seed \in SeedBytes :
              LET free == k * probeBufLen
                  actualWriteSize == free - udiskReserve
                  made == generateFixedData(actualWriteSize, seed)
                  \* the deferred function: os.Remove(tempFile), then f.Close()
                  seen == [obs EXCEPT !.probeCalls = @ + 1, !.probed = free,
                                      !.tmpPeak = IF free > @ THEN free ELSE @,
                                      !.tmpOpenAtRemove = TRUE]
                  \* data := make([]byte, size) has been done
                  held == [seen EXCEPT !.allocated =
                              IF actualWriteSize > @ THEN actualWriteSize ELSE @]
              IN
              /\ freeSpace' = free
              /\ tmpLeft' = IF rmOk THEN 0 ELSE free
              /\ IF free < blockSize \/ actualWriteSize < blockSize
                 THEN /\ UdiskFatal
                      /\ obs' = Failed(seen, round + 1)
                      /\ UNCHANGED <<data, checksum>>
                 ELSE IF made.panic
                 THEN /\ outcome' = "panic" /\ pc' = "exit"
                      /\ obs' = held
                      /\ UNCHANGED <<data, checksum>>
                 ELSE /\ data' = made.data
                      /\ checksum' = made.checksum
                      /\ pc' = "create"
                      /\ obs' = held
                      /\ UNCHANGED outcome
    /\ UNCHANGED <<prog, round, filePath, file, hashIn, read, faults, blockSize, volFree,
                   verifyChecksum, roundHashes, handles, notUdisk>>

\* writeAndVerify, lines 219-225: os.Create.
Udisk_Create ==
    /\ prog = "udisk" /\ pc = "create"
    /\ \E ok \in BOOLEAN :
         IF ok
         THEN /\ file' = EmptyFile
              /\ filePath' = "udisk_fixed_data.bin"
              \* defer f.Close()
              /\ handles' = {"f"}
              /\ pc' = "write"
              /\ obs' = [obs EXCEPT !.roundsStarted = @ + 1, !.createdAt = round + 1,
                                    !.wrote = <<>>, !.synced = FALSE]
              /\ UNCHANGED outcome
         ELSE /\ UdiskFatal
              /\ obs' = Failed([obs EXCEPT !.roundsStarted = @ + 1], round + 1)
              /\ UNCHANGED <<file, filePath, handles>>
    /\ UNCHANGED <<prog, round, freeSpace, hashIn, read, faults, udiskData, notUdisk>>

\* writeAndVerify, lines 227-231: writeWithProgress.
Udisk_Write ==
    /\ prog = "udisk" /\ pc = "write"
    /\ \E failAt \in 0..WriteCalls(data, blockSize) :
         LET w == writeWithProgress(data, blockSize, failAt) IN
         /\ file' = FileOf(w.bytes)
         /\ IF w.status = "ok"
            THEN /\ pc' = "sync"
                 /\ obs' = [obs EXCEPT !.wrote = w.bytes]
                 /\ UNCHANGED <<outcome, handles>>
            ELSE IF w.status = "error"
            THEN /\ UdiskFatal
                 /\ handles' = {}
                 /\ obs' = Failed([obs EXCEPT !.ioFailedAt = round + 1], round + 1)
            ELSE /\ outcome' = w.status /\ pc' = "exit"
                 /\ handles' = IF w.status = "panic" THEN {} ELSE handles
                 /\ UNCHANGED obs
    /\ UNCHANGED <<prog, round, freeSpace, filePath, hashIn, read, faults, udiskData,
                   notUdisk>>

\* writeAndVerify, lines 233-237: f.Sync.
Udisk_Sync ==
    /\ prog = "udisk" /\ pc = "sync"
    /\ \E ok \in BOOLEAN :
         IF ok
         THEN /\ pc' = "open"
              /\ obs' = [obs EXCEPT !.synced = TRUE]
              /\ UNCHANGED <<outcome, handles>>
         ELSE /\ UdiskFatal
              /\ handles' = {}
              /\ obs' = Failed([obs EXCEPT !.ioFailedAt = round + 1], round + 1)
    /\ UNCHANGED <<prog, round, freeSpace, filePath, file, hashIn, read, faults,
                   udiskData, notUdisk>>

\* writeAndVerify, lines 239-244: os.Open.
Udisk_Open ==
    /\ prog = "udisk" /\ pc = "open"
    /\ \E ok \in BOOLEAN :
         IF ok
         THEN \E b \in OnMedium(file.bytes) :
              /\ file' = FileOf(b)
              /\ faults' = IF b = file.bytes THEN faults ELSE faults + 1
              \* defer verifyFile.Close()
              /\ handles' = handles \cup {"verifyFile"}
              /\ pc' = "copy"
              /\ UNCHANGED <<outcome, obs>>
         ELSE /\ UdiskFatal
              /\ handles' = {}
              /\ obs' = Failed([obs EXCEPT !.ioFailedAt = round + 1], round + 1)
              /\ UNCHANGED <<file, faults>>
    /\ UNCHANGED <<prog, round, freeSpace, filePath, hashIn, read, udiskData, notUdisk>>

\* writeAndVerify, lines 246-257: io.Copy into the verify hash, Sum.
Udisk_Copy ==
    /\ prog = "udisk" /\ pc = "copy"
    /\ \E ok \in BOOLEAN :
         IF ok
         THEN /\ hashIn' = file.bytes
              /\ read' = Len(file.bytes)
              /\ verifyChecksum' = Sum512(file.bytes)
              /\ pc' = "compare"
              /\ UNCHANGED <<outcome, obs, handles>>
         ELSE /\ UdiskFatal
              /\ handles' = {}
              /\ obs' = Failed([obs EXCEPT !.ioFailedAt = round + 1], round + 1)
              /\ UNCHANGED <<hashIn, read, verifyChecksum>>
    /\ UNCHANGED <<prog, round, freeSpace, filePath, file, faults, blockSize, volFree,
                   tmpLeft, data, checksum, roundHashes, notUdisk>>

\* writeAndVerify, lines 259-267: the two checksums are compared.
Udisk_Compare ==
    /\ prog = "udisk" /\ pc = "compare"
    /\ IF verifyChecksum # checksum
       THEN /\ UdiskFatal
            /\ handles' = {}
            /\ obs' = Failed([obs EXCEPT !.mismatchAt = round + 1], round + 1)
       ELSE /\ pc' = "remove"
            /\ obs' = [obs EXCEPT !.verifiedAt = round + 1]
            /\ UNCHANGED <<outcome, handles>>
    /\ UNCHANGED <<prog, round, freeSpace, filePath, file, hashIn, read, faults,
                   udiskData, notUdisk>>

\* writeAndVerify, lines 269-275: os.Remove, and main, lines 297-312.
Udisk_Remove ==
    /\ prog = "udisk" /\ pc = "remove"
    /\ \E rmOk \in BOOLEAN :
         IF rmOk
         THEN /\ file' = NoFile
              /\ roundHashes' = [roundHashes EXCEPT ![round + 1] = Hex(checksum)]
              /\ round' = round + 1
              /\ obs' = [obs EXCEPT !.removeTriedAt = round + 1, !.removedOk = TRUE,
                                    !.openAtRemove = handles,
                                    !.lastReturn = [round |-> round + 1, err |-> FALSE]]
              /\ IF round + 1 < repeat
                 THEN pc' = "probe" /\ UNCHANGED outcome
                 ELSE pc' = "exit" /\ outcome' = "allPassed"
         ELSE /\ UdiskFatal
              /\ obs' = Failed([obs EXCEPT !.removeTriedAt = round + 1,
                                           !.removedOk = FALSE,
                                           !.openAtRemove = handles,
                                           !.cleanupFailedAt = round + 1], round + 1)
              /\ UNCHANGED <<file, roundHashes, round>>
    \* the return runs the deferred verifyFile.Close() and f.Close()
    /\ handles' = {}
    /\ UNCHANGED <<prog, freeSpace, filePath, hashIn, read, faults, blockSize, volFree,
                   tmpLeft, data, checksum, verifyChecksum, notUdisk>>

Udisk_Next ==
    \/ Udisk_Start \/ Udisk_Probe \/ Udisk_Create \/ Udisk_Write \/ Udisk_Sync
    \/ Udisk_Open \/ Udisk_Copy \/ Udisk_Compare \/ Udisk_Remove

(***************************************************************************)
(* The functions on their own: the generators on every length and seed,    *)
(* the readers against every sequence of read results.                     *)
(***************************************************************************)
\* What one Read of a file returns: a byte count and nil, io.EOF or another error.
ReadResults == [n : 0..Sha1BufLen, err : {"nil", "EOF", "EIO"}]

\* The sequences of read results a reader is run against.
ReadSeqs == UNION {[1..m -> ReadResults] : m \in 0..MaxReads}

\* A file that has nothing more to give returns (0, io.EOF).
AtEnd == [n |-> 0, err |-> "EOF"]

\* The n bytes of the file after offset off: the byte at offset k is k + 1.
Bytes(off, n) == [i \in 1..n |-> (off + i) % 256]

\* Mutant of AfterRead: io.EOF is taken for an error as every other one.
AfterRead_EofIsError(n, err) ==
    IF err # "nil" THEN "error" ELSE IF n = 0 THEN "break" ELSE "feed"

\* calculateSHA1, lines 120-126: what the loop does with the result of file.Read.
AfterRead(n, err) ==
    IF err # "nil" /\ err # "EOF" THEN "error" ELSE IF n = 0 THEN "break" ELSE "feed"

\* calculateSHA1, lines 118-127: the loop from the k-th read on.  `seen` are the read
\* results so far, `fed` the bytes given to hash.Write.
RECURSIVE calculateSHA1Loop(_, _, _, _, _)
calculateSHA1Loop(reads, k, off, fed, seen) ==
    LET r == IF k > Len(reads) THEN AtEnd ELSE reads[k]
        step == AfterRead(r.n, r.err)
    IN  IF step = "error" THEN [err |-> TRUE, fed |-> fed, seen |-> Append(seen, r)]
        ELSE IF step = "break" THEN [err |-> FALSE, fed |-> fed, seen |-> Append(seen, r)]
        ELSE calculateSHA1Loop(reads, k + 1, off + r.n, fed \o Bytes(off, r.n),
                               Append(seen, r))

\* verifyFileHash, lines 192-198: what the loop does with the result of f.Read.
AfterChunkRead(n, err) ==
    IF err # "nil" /\ err # "EOF" THEN "error" ELSE IF n = 0 THEN "break" ELSE "feed"

\* verifyFileHash, lines 182-204: the loop from the k-th read on.  A read into
\* buf[:readSize] returns at most readSize bytes.
RECURSIVE verifyFileHashLoop(_, _, _, _, _, _)
verifyFileHashLoop(reads, totalSize, k, done, fed, seen) ==
    IF done < totalSize
    THEN LET readSize == UsbWriteSize(totalSize, done)
             got == IF k > Len(reads) THEN AtEnd ELSE reads[k]
             r == [n |-> Min(got.n, readSize), err |-> got.err]
             step == AfterChunkRead(r.n, r.err)
         IN  IF step = "error"
             THEN [err |-> TRUE, fed |-> fed, seen |-> Append(seen, r)]
             ELSE IF step = "break"
             THEN [err |-> FALSE, fed |-> fed, seen |-> Append(seen, r)]
             ELSE verifyFileHashLoop(reads, totalSize, k + 1, done + r.n,
                                     fed \o Bytes(done, r.n), Append(seen, r))
    ELSE [err |-> FALSE, fed |-> fed, seen |-> seen]

\* Nothing of a program's run changes while a function is called on its own.
CallFrame == UNCHANGED <<common, progSha1, progUsb, progUdisk, obs>>

\* generateFixedData(size), twice: each call draws its own seed (lines 45-48).
Call_generateFixedData ==
    /\ prog = "calls" /\ lastCall = NoCall
    /\ \E size \in 0..MaxCallLen, seed1 \in SeedBytes, seed2 \in SeedBytes :
         LET a == generateFixedData(size, seed1)
             b == generateFixedData(size, seed2)
         IN  lastCall' = [NoCall EXCEPT !.fn = "generateFixedData", !.size = size,
                                        !.seeds = <<seed1, seed2>>,
                                        !.out = a.data, !.again = b.data,
                                        !.sums = <<a.checksum, b.checksum>>,
                                        !.panic = a.panic \/ b.panic]
    /\ CallFrame

\* fixedReader.Read(p) with len(p) = size.
Call_fixedReaderRead ==
    /\ prog = "calls" /\ lastCall = NoCall
    /\ \E size \in 0..MaxCallLen, seed \in SeedBytes :
         LET r == fixedReaderRead(seed, size)
         IN  lastCall' = [NoCall EXCEPT !.fn = "fixedReader.Read", !.size = size,
                                        !.seeds = <<seed>>, !.out = r.p,
                                        !.panic = r.panic]
    /\ CallFrame

\* generateFixedBlock(h, size), twice.
Call_generateFixedBlock ==
    /\ prog = "calls" /\ lastCall = NoCall
    /\ \E size \in 1..MaxCallLen :
         lastCall' = [NoCall EXCEPT !.fn = "generateFixedBlock", !.size = size,
                                    !.out = generateFixedBlock(size),
                                    !.again = generateFixedBlock(size)]
    /\ CallFrame

\* calculateSHA1 on a file whose reads return `reads`.
Call_calculateSHA1 ==
    /\ prog = "calls" /\ lastCall = NoCall
    /\ \E reads \in ReadSeqs :
         LET r == calculateSHA1Loop(reads, 1, 0, <<>>, <<>>)
         IN  lastCall' = [NoCall EXCEPT !.fn = "calculateSHA1", !.reads = r.seen,
                                        !.out = r.fed, !.err = r.err]
    /\ CallFrame

\* verifyFileHash(.., totalSize, h) on a file whose reads return `reads`.
Call_verifyFileHash ==
    /\ prog = "calls" /\ lastCall = NoCall
    /\ \E reads \in ReadSeqs, totalSize \in 1..MaxCallLen :
         LET r == verifyFileHashLoop(reads, totalSize, 1, 0, <<>>, <<>>)
         IN  lastCall' = [NoCall EXCEPT !.fn = "verifyFileHash", !.size = totalSize,
                                        !.reads = r.seen, !.out = r.fed,
                                        !.err = r.err]
    /\ CallFrame

\* writeWithProgress(f, data) with len(data) = size and the -block flag at bufSize, a
\* value that passes the checks of writeAndVerify, lines 204-213: the free space and
\* the target size, which is len(data), are not below it.
Call_writeWithProgress ==
    /\ prog = "calls" /\ lastCall = NoCall
    /\ \E size \in 0..MaxCallLen, bufSize \in (0 - MaxBlockSize)..MaxBlockSize :
         /\ size >= bufSize
         /\ \E failAt \in 0..WriteCalls(Bytes(0, size), bufSize) :
              LET w == writeWithProgress(Bytes(0, size), bufSize, failAt)
              IN  lastCall' = [NoCall EXCEPT !.fn = "writeWithProgress", !.size = size,
                                             !.block = bufSize, !.out = w.bytes,
                                             !.err = (w.status = "error"),
                                             !.panic = (w.status = "panic"),
                                             !.status = w.status]
    /\ CallFrame

CallInit ==
    /\ prog = "calls"
    /\ blockSize = 0
    /\ volFree = 0
    /\ Boot

CallNext ==
    \/ Call_generateFixedData \/ Call_fixedReaderRead \/ Call_generateFixedBlock
    \/ Call_calculateSHA1 \/ Call_verifyFileHash \/ Call_writeWithProgress

(***************************************************************************)
(* The specifications: a run of one of the programs, and the functions on  *)
(* their own.                                                              *)
(***************************************************************************)
Next == Sha1_Next \/ Usb_Next \/ Udisk_Next

Spec == Init /\ [][Next]_vars

CallSpec == CallInit /\ [][CallNext]_vars

(***************************************************************************)
(* The claims.                                                             *)
(***************************************************************************)

\* C1 (as claimed): in the BLAKE2b-256 driver, a round that read back a byte other than
\* the one written at that offset returns an error, and a run with such a round never
\* prints the all-tests-complete message.
C1_CorruptReadFailsRound ==
    prog = "usbhash" =>
        /\ (obs.corruptReadAt # 0 /\ obs.lastReturn.round = obs.corruptReadAt
               => obs.lastReturn.err)
        /\ (obs.corruptReadAt # 0 => outcome # "allDone")

\* C2: the SHA1 driver prints the overall-pass message only if all 5 rounds wrote and
\* hashed without error and the digest of every round 2..5 equals that of round 1.
C2_PassOnlyIfAllRoundsAgree ==
    (prog = "sha1" /\ outcome = "pass") =>
        /\ obs.ioFailedAt = 0
        /\ Len(obs.roundDigests) = Sha1Rounds
        /\ \A r \in 2..Sha1Rounds : obs.roundDigests[r] = obs.roundDigests[1]

\* C2, its case: the pass message has been printed after five rounds.
C2_PassPrinted ==
    prog = "sha1" /\ outcome = "pass" /\ obs.roundsStarted = Sha1Rounds

\* C3 (as claimed): in the SHA1 driver, a probed free space at or below the reserve ends
\* the run with the insufficient-space message before any write attempt.
C3_AtOrBelowReserveNeverWrites ==
    (prog = "sha1" /\ obs.probed >= 0 /\ obs.probed <= reserveSpace) =>
        /\ outcome = "insufficientSpace"
        /\ obs.roundsStarted = 0
        /\ ~file.exists

\* C4 (as claimed): in the SHA1 driver, when round r is at its write phase the free-space
\* probe has been called r times: once for every round so far.
C4_ProbeBeforeEveryRound ==
    (prog = "sha1" /\ pc \in {"create", "write"}) => obs.probeCalls >= round

\* C5 (as claimed): in the SHA1 driver, once a round has failed (a write error, a read
\* error, or a digest that differs from the baseline) no later round is started;
\* otherwise exactly 5 rounds run.
C5_FailFastOnAnyFailure ==
    prog = "sha1" =>
        /\ (obs.ioFailedAt # 0 => obs.roundsStarted = obs.ioFailedAt)
        /\ (obs.mismatchAt # 0 => obs.roundsStarted = obs.mismatchAt)
        /\ (pc = "exit" /\ obs.roundsStarted > 0 /\ obs.ioFailedAt = 0
               /\ obs.mismatchAt = 0 => obs.roundsStarted = Sha1Rounds)

\* C5 (amended): in the SHA1 driver, once a write or a read of a round has failed no
\* later round is started; a digest that differs from the baseline does not stop the
\* run: without a write or read error exactly 5 rounds run.
C5_FailFastOnIoError ==
    prog = "sha1" =>
        /\ (obs.ioFailedAt # 0 =>
               obs.roundsStarted = obs.ioFailedAt /\ pc \in {"report", "exit"})
        /\ (pc = "exit" /\ obs.roundsStarted > 0 /\ obs.ioFailedAt = 0
               => obs.roundsStarted = Sha1Rounds)

\* C5, its case: a round before the last differed from the baseline and the run went on
\* to its fifth round.
C5_MismatchRunsOn ==
    /\ prog = "sha1" /\ pc = "exit"
    /\ obs.mismatchAt \in 2..(Sha1Rounds - 1)
    /\ obs.ioFailedAt = 0
    /\ obs.roundsStarted = Sha1Rounds

\* C6 (as claimed): in the BLAKE2b-512 driver, a round that created its test file calls
\* os.Remove on it before it returns, whatever the outcome, and the file is gone after
\* a round whose os.Remove did not fail.
C6_EveryExitTriesDelete ==
    (prog = "udisk" /\ obs.lastReturn.round # 0
                    /\ obs.createdAt = obs.lastReturn.round) =>
        /\ obs.removeTriedAt = obs.lastReturn.round
        /\ (obs.removedOk => ~file.exists)

\* C7 (as claimed): in the BLAKE2b-512 driver, a failed os.Remove after a round that
\* verified does not end the run, and the round's digest is in roundHashes.
C7_CleanupFailureNotFatal ==
    (prog = "udisk" /\ obs.cleanupFailedAt # 0) =>
        /\ outcome # "fatal"
        /\ roundHashes[obs.cleanupFailedAt] # EmptyStr

\* C8 (as claimed): in the BLAKE2b-256 driver, the writer has returned success and the
\* read-back is under way only after f.Sync succeeded on the round's file.
C8_ReadBackAfterSync ==
    (prog = "usbhash" /\ pc \in {"open", "read", "finish"}) => obs.synced

\* C9: without a write error, writeFixedFile and writeFileToUsb end with a file of
\* exactly the target size: every write is at most one block, the bytes in the file
\* are the bytes written so far, the count never exceeds the target (the unsigned
\* remainder never wraps), the next write is of at least one byte and of no more than
\* what remains (so the loop ends), and the count never decreases.
C9_ChunkedWriteExact ==
    /\ [](prog = "sha1" /\ pc = "write" =>
            /\ obs.lastWrite <= FixedDataBlockLen
            /\ remaining <= freeSpace
            /\ (remaining > 0 => WriteSize(remaining) \in 1..remaining)
            /\ Len(file.bytes) + remaining = freeSpace)
    /\ [](prog = "sha1" /\ pc = "open" => Len(file.bytes) = freeSpace)
    /\ [](prog = "usbhash" /\ pc = "write" =>
            /\ obs.lastWrite <= chunkSize
            /\ written <= freeSpace
            /\ (written < freeSpace =>
                   UsbWriteSize(freeSpace, written) \in 1..(freeSpace - written))
            /\ Len(file.bytes) = written)
    /\ [](prog = "usbhash" /\ pc = "open" => Len(file.bytes) = freeSpace)
    /\ [][pc = "write" /\ pc' = "write" =>
            /\ Len(file'.bytes) >= Len(file.bytes)
            /\ (prog = "usbhash" => written' >= written)
            /\ (prog = "sha1" => remaining' <= remaining)]_vars

\* C9, its case: a writer has returned success for a size of more than one block that
\* is no multiple of the block size.
C9_PartialLastBlockWritten ==
    /\ pc = "open"
    /\ \/ prog = "usbhash" /\ freeSpace > chunkSize /\ freeSpace % chunkSize # 0
       \/ prog = "sha1" /\ freeSpace > FixedDataBlockLen
                        /\ freeSpace % FixedDataBlockLen # 0
    /\ Len(file.bytes) = freeSpace

\* C10 (as claimed): when a write or the flush of writeFixedFile fails, the writer itself
\* deletes nothing and the partial file stays in place.
C10_WriterLeavesPartialFile ==
    (prog = "sha1" /\ obs.writerErrors > 0) =>
        /\ obs.writerRemoves = 0
        /\ file.exists

\* C10 (amended): when a write or the flush of writeFixedFile fails, the writer makes no
\* further write, calls os.Remove on the target file itself and returns an empty path
\* with the error (no byte count); the partial file stays only if that os.Remove fails.
C10_WriterRemovesOnError ==
    prog = "sha1" =>
        /\ obs.writerRemoves = obs.writerErrors
        /\ (obs.writerErrors > 0 =>
               /\ obs.writerErrors = 1
               /\ pc \in {"report", "exit"}
               /\ filePath = ""
               /\ (obs.removedOk => ~file.exists))

\* C10, its case: a write failed after an earlier block had been written, and the
\* writer's os.Remove took the partial file away.
C10_PartialFileRemoved ==
    /\ prog = "sha1" /\ obs.writerErrors = 1
    /\ obs.wrote # <<>>
    /\ obs.removedOk /\ ~file.exists

\* C11 (as claimed): in the BLAKE2b-512 driver, the payload bytes held in memory are at
\* no moment more than one block (blockSize), whatever the round's target size: no
\* payload buffer larger than a block is allocated, and data is no longer than a block.
C11_MemoryBoundedByBlock ==
    prog = "udisk" =>
        LET block == IF blockSize > 0 THEN blockSize ELSE 0 IN
        /\ obs.allocated <= block
        /\ Len(data) <= block

\* C12 (as claimed): two calls of generateFixedData with the same size return the same
\* bytes and the same checksum.
C12_SameSizeSameData ==
    (lastCall.fn = "generateFixedData" /\ ~lastCall.panic) =>
        /\ lastCall.out = lastCall.again
        /\ lastCall.sums[1] = lastCall.sums[2]

\* C13 (as claimed): in the BLAKE2b-256 driver on a POSIX host, the free-space probe
\* returns an error, and never a byte count, for a path that is not absolute.
C13_RelativePathRejected ==
    (prog = "usbhash" /\ usbPath \in {"mnt/usb", "mnt/none"}) =>
        /\ obs.probed = -1
        /\ (obs.probeCalls > 0 => obs.probeFailed)

\* C14 (as claimed): getDiskFreeSpace of the BLAKE2b-512 driver has no side effects:
\* during the call and after it the volume holds no file it did not hold before and
\* has the free space it had before.
C14_ProbeHasNoSideEffects ==
    prog = "udisk" =>
        /\ obs.tmpPeak = 0
        /\ tmpLeft = 0

\* The bytes a sequence of read results hands over, but for a read that failed.
RECURSIVE C15_Returned(_)
C15_Returned(rs) ==
    IF rs = <<>> THEN 0
    ELSE (IF Head(rs).err = "EIO" THEN 0 ELSE Head(rs).n) + C15_Returned(Tail(rs))

\* C15: for every sequence of read results, calculateSHA1 and verifyFileHash go on
\* after every read that returned bytes (a short one as well), end without an error at
\* a read of zero bytes at the end of the stream, end with an error at a read error
\* other than end-of-stream, and feed every byte a read returned (also the bytes
\* returned together with end-of-stream) to the digest once, in the order read.
C15_ReadersFeedEveryByte ==
    lastCall.fn \in {"calculateSHA1", "verifyFileHash"} =>
        LET rs == lastCall.reads
            m == Len(rs)
            full == lastCall.fn = "verifyFileHash" /\ Len(lastCall.out) = lastCall.size
        IN
        /\ \A k \in 1..(m - 1) : rs[k].n > 0 /\ rs[k].err # "EIO"
        /\ lastCall.err <=> (m >= 1 /\ rs[m].err = "EIO")
        /\ ~lastCall.err => (full \/ (m >= 1 /\ rs[m].n = 0))
        /\ lastCall.out = Bytes(0, C15_Returned(rs))

\* C15, its case: a reader went on after a short read, was fed bytes that came with
\* end-of-stream, and ended without an error at the read of zero bytes that followed.
C15_ShortReadThenEof ==
    /\ lastCall.fn \in {"calculateSHA1", "verifyFileHash"}
    /\ Len(lastCall.reads) = 3
    /\ lastCall.reads[1] = [n |-> 1, err |-> "nil"]
    /\ lastCall.reads[2].n > 0 /\ lastCall.reads[2].err = "EOF"
    /\ lastCall.reads[3] = [n |-> 0, err |-> "EOF"]
    /\ ~lastCall.err
    /\ Len(lastCall.out) = 1 + lastCall.reads[2].n

\* C16 (as claimed): in the BLAKE2b-256 driver, a round whose read-back ended before
\* the target byte count (the file is shorter than totalSize) returns an error.
C16_ShortReadFailsRound ==
    (prog = "usbhash" /\ obs.shortReadAt # 0
                      /\ obs.lastReturn.round = obs.shortReadAt) =>
        obs.lastReturn.err

\* C17 (as claimed): in the BLAKE2b-256 driver, a run on a volume with free space at the
\* start, without an I/O fault and with nothing else changing the volume, ends with
\* the completion message after 5 rounds, and no round's test file stays on the volume.
C17_FaultFreeRunCompletes ==
    prog = "usbhash" =>
        /\ (/\ pc = "exit" /\ outcome # "usage"
            /\ ~obs.external /\ ~obs.probeFailed /\ obs.ioFailedAt = 0 /\ faults = 0
            /\ (round > 1 \/ obs.probed > 0))
               => outcome = "allDone"
        /\ (~obs.external => existing = {})

\* C18 (as claimed): in the BLAKE2b-512 driver, a round fails with the checksum mismatch
\* only if the two checksums differ and passes only if they are equal, and for every
\* target size that passes sizing the round gets as far as that comparison: it does
\* not end in a panic or in a write loop that never ends.
C18_RoundTripPasses ==
    prog = "udisk" =>
        /\ (obs.mismatchAt # 0 /\ pc = "exit" => verifyChecksum # checksum)
        /\ (pc = "remove" => verifyChecksum = checksum)
        /\ (/\ obs.probed >= blockSize
            /\ obs.probed - udiskReserve >= blockSize
            /\ obs.probed - udiskReserve >= 0)
               => outcome \notin {"panic", "hang"}

\* C19 (as claimed): fixedReader.Read, for every buffer length L >= 0, does not panic,
\* fills all L bytes, and leaves p[i] = D[i mod d], D the digest of the seed.
C19_ReadTilesSeedDigest ==
    lastCall.fn = "fixedReader.Read" =>
        /\ ~lastCall.panic
        /\ Len(lastCall.out) = lastCall.size
        /\ \A i \in 1..lastCall.size :
               lastCall.out[i] = hashBytesOf(lastCall.seeds[1])[((i - 1) % Blake512Size) + 1]

\* C20 (as claimed): generateFixedBlock, for every blockSize >= 1, returns blockSize
\* bytes with block[i] = C[i mod d], C the hash of the seed digest, and returns the
\* same block when called again.
C20_BlockTilesChunk ==
    lastCall.fn = "generateFixedBlock" =>
        /\ Len(lastCall.out) = lastCall.size
        /\ \A i \in 1..lastCall.size :
               lastCall.out[i] = chunk[((i - 1) % Blake256Size) + 1]
        /\ lastCall.out = lastCall.again

\* C21 (as claimed): in the BLAKE2b-512 driver, when the round calls os.Remove on its test
\* file neither the write handle f nor the read handle verifyFile is open any more,
\* and getDiskFreeSpace has closed its temporary file before it removes it.
C21_ClosedBeforeRemove ==
    prog = "udisk" =>
        /\ (obs.removeTriedAt # 0 => obs.openAtRemove = {})
        /\ (pc = "remove" => handles = {})
        /\ ~obs.tmpOpenAtRemove

\* C22 (as claimed): writeWithProgress, for every block size that passes the checks of
\* writeAndVerify (0 and negative values as well) and without a write error, makes
\* progress in every iteration, never slices out of range, and ends with all of data
\* written.
C22_WriteLoopEnds ==
    (lastCall.fn = "writeWithProgress" /\ ~lastCall.err) =>
        /\ lastCall.status = "ok"
        /\ Len(lastCall.out) = lastCall.size
====
